---- MODULE Spec2Model ----
(***************************************************************************)
(* Model of the /upload handler of app.py (upload_file) and of the         *)
(* collaborators it calls: OCR (extract_text), the scoring service         *)
(* (ai_client.chat.completions.create), the PDF writers and the e-mail     *)
(* sender.  Numbers with one decimal place (percentages) are kept as       *)
(* integers counting tenths: 80.0 is 800.                                  *)
(***************************************************************************)
EXTENDS Integers, Sequences, FiniteSets, TLC

\* ---------------------------------------------------------------- bounds
MaxFiles == 2          \* longest list of student files in one request
MaxParts == 2          \* longest JSON array the scoring service returns
MaxSubmissions == 16   \* submissions observed in one quota window
MaxLen == 3            \* longest OCR content, in characters
MaxStyles == 2         \* most styles in one OCR result
MaxSpans == 2          \* most spans in one OCR result, over all its styles

\* ------------------------------------------------------------- constants
None == -1             \* Python's None in a numeric field
NoData == -2           \* the "no-data" aggregation sentinel of the design
maxRequests == 15      \* quota of the design's rate limiter

\* ------------------------------------------------------------ input sets
allowed_levels == {"KS3", "GCSE", "A level"}
allowed_subjects == {"Physics", "Maths", "English", "History", "Geography",
                     "Biology", "Chemistry", "Computer Science",
                     "Design and Technology", "Art and Design"}
allowed_boards == {"AQA", "Edexcel", "OCR", "WJEC"}

Levels == {"GCSE", "PhD"}
Subjects == {"Physics", "Alchemy"}
Boards == {"AQA", "XYZ"}
Absent == "<absent>"                       \* key not in request.files
RawNames == {"", "a.pdf", "b c.pdf"}       \* client-supplied file names
DeliveryOptions == {"website", "email"}
FeedbackDetails == {"overall", "parts"}

\* werkzeug's secure_filename on the names above
secure_filename(n) ==
    CASE n = "b c.pdf" -> "b_c.pdf"
      [] OTHER -> n

\* f"{os.path.splitext(name)[0]}_feedback.pdf"
pdf_name(name) ==
    CASE name = "a.pdf" -> "a_feedback.pdf"
      [] name = "b_c.pdf" -> "b_c_feedback.pdf"
      [] OTHER -> "_feedback.pdf"

SeqsUpTo(S, n) == UNION {[1..k -> S] : k \in 0..n}

\* Submissions with every combination of form fields, over at most one
\* student file ...
FormRequests ==
    [ms : {Absent, "", "ms.pdf"},
     files : {<<>>, <<"">>, <<"a.pdf">>},
     level : Levels, subject : Subjects, exam_board : Boards,
     opts : SUBSET DeliveryOptions,
     feedback_detail : FeedbackDetails,
     mp : BOOLEAN]

\* ... and well-formed submissions with every batch of student files.
BatchRequests ==
    [ms : {"ms.pdf"},
     files : SeqsUpTo(RawNames, MaxFiles) \ {<<>>},
     level : {"GCSE"}, subject : {"Physics"}, exam_board : {"AQA"},
     opts : {{"website", "email"}},
     feedback_detail : FeedbackDetails,
     mp : {FALSE}]

Requests == FormRequests \cup BatchRequests

\* Well-formed submissions of one student file, for repeated submission.
QuotaRequests ==
    [ms : {"ms.pdf"},
     files : {<<"a.pdf">>},
     level : {"GCSE"}, subject : {"Physics"}, exam_board : {"AQA"},
     opts : {{"website"}, {"email"}},
     feedback_detail : FeedbackDetails,
     mp : BOOLEAN]

\* ------------------------------------------------- scoring-service values
\* A feedback text: err marks the text of a caught exception, mark is the
\* pair <<a, b>> of a "Mark: a/b" marker in the text, <<>> without one.
Text(err, mark) == [err |-> err, mark |-> mark]
PlainText == Text(FALSE, <<>>)

\* One element of a parsed JSON array: a record (dict) or something else.
Part(q, a, t, fb) ==
    [rec |-> TRUE, question |-> q, awarded |-> a, total |-> t, feedback |-> fb]
NonRecord ==
    [rec |-> FALSE, question |-> "", awarded |-> None, total |-> None,
     feedback |-> PlainText]

JsonParts ==
    {Part("1a", 8, 10, PlainText), Part("1b", 1, 3, PlainText),
     Part("2", 0, 0, PlainText)}

\* What the scoring call / json.loads can produce in the "parts" branch:
\*  raise    - create() raises
\*  badjson  - the content is not JSON (json.loads raises)
\*  scalar   - the content is JSON but not iterable (a number, null, true)
\*  array    - a JSON array of the items given; an array with an element
\*             that is no object stands for a JSON object too (Python walks
\*             the keys of a dict, which are strings)
PartsResponses ==
    {[kind |-> k, items |-> <<>>] : k \in {"raise", "badjson", "scalar"}}
    \cup {[kind |-> "array", items |-> s] : s \in SeqsUpTo(JsonParts, MaxParts)}
    \cup {[kind |-> "array", items |-> <<NonRecord>>]}

\* ... and in the overall branch: the call raises or returns free text.
OverallResponses ==
    {[kind |-> "raise", text |-> PlainText]}
    \cup {[kind |-> "text", text |-> Text(FALSE, m)] :
             m \in {<<>>, <<8, 10>>, <<1, 3>>}}

\* The value bound to `parts`: iter is FALSE for a value Python cannot
\* iterate over.
Parts(iter, items) == [iter |-> iter, items |-> items]


\* ------------------------------------------------------------- arithmetic
\* n/d rounded to the nearest integer, halves to the even neighbour
\* (Python's round); n >= 0, d > 0.
RoundDiv(n, d) ==
    LET q == n \div d
        r == n % d
    IN  IF 2 * r < d THEN q
        ELSE IF 2 * r > d THEN q + 1
        ELSE IF q % 2 = 0 THEN q ELSE q + 1

\* round(p["awarded"]/p["total"]*100, 1), in tenths
Percent(a, t) == RoundDiv(a * 1000, t)

RECURSIVE Sum(_)
Sum(s) == IF s = <<>> THEN 0 ELSE Head(s) + Sum(Tail(s))

Max(a, b) == IF a >= b THEN a ELSE b

\* p.get("awarded") is not None and p.get("total") is not None
Scored(p) == p.awarded # None /\ p.total # None

\* the division of line 334 raises ZeroDivisionError on one of the items
DividesByZero(items) ==
    \E k \in 1..Len(items) : Scored(items[k]) /\ items[k].total = 0

\* the percentages the loop of lines 332-334 appends, up to the item on
\* which it raises
RECURSIVE MarksOf(_)
MarksOf(items) ==
    IF items = <<>> THEN <<>>
    ELSE LET p == Head(items) IN
         IF ~Scored(p) THEN MarksOf(Tail(items))
         ELSE IF p.total = 0 THEN <<>>
         ELSE <<Percent(p.awarded, p.total)>> \o MarksOf(Tail(items))

\* round(sum(valid)/max(len(valid),1),1), in tenths
ClassAvg(ms) == RoundDiv(Sum(ms), Max(Len(ms), 1))

\* ---------------------------------------------------------------- parsing
\* lines 277-294: the value of `parts` after the try/except
SyntheticPart(fb) == Part("Overall", None, None, fb)

ParseParts(r) ==
    CASE r.kind = "array" -> Parts(TRUE, r.items)
      [] r.kind = "scalar" -> Parts(FALSE, <<>>)
      [] OTHER -> Parts(TRUE, <<SyntheticPart(Text(TRUE, <<>>))>>)

\* lines 297-323: fb_text, then the single "Overall" part
OverallParts(r) ==
    LET fb_text == IF r.kind = "raise" THEN Text(TRUE, <<>>) ELSE r.text
    IN  Parts(TRUE, <<Part("Overall", None, None, fb_text)>>)

\* save_feedback_pdf_structured raises while walking `parts`
PdfRaises(p) ==
    \/ ~p.iter
    \/ \E k \in 1..Len(p.items) : ~p.items[k].rec

\* results.insert(0, ...) in place of results.append(...)
AppendResultFirst(rs, r) == <<r>> \o rs

\* lines 337-341
AppendResult(rs, r) == Append(rs, r)

\* lines 368-372
Attachments(rs) ==
    [k \in 1..Len(rs) |-> pdf_name(rs[k].filename)] \o <<"class_summary.pdf">>

\* ------------------------------------------------------------------ state
VARIABLES
    pc,             \* position of the handler in upload_file
    req,            \* the submitted form and files
    i,              \* index of the student file being processed
    name,           \* secure_filename of that file
    parts,          \* `parts` of that file
    resps,          \* what the scoring service answered, per file so far
    results, marks, all_fb,
    class_avg, class_feedback,
    atts,           \* attachment list handed to the e-mail sender
    response,       \* what the client receives
    calls,          \* collaborators called while serving this request
    acs_configured, \* ACS_EMAIL_CONNECTION_STRING and SMTP_SENDER_EMAIL set
    ocr_failed,     \* index of the student file whose OCR raised, 0 if none
    email_err,      \* the e-mail sender raised
    nInWindow       \* submissions the client made in the current window

\* extract_text, lines 83-99
VARIABLES
    opc,            \* position inside extract_text
    content,        \* result.content, a sequence of characters
    styles,         \* result.styles
    chars,          \* the editable char array: one string per character
    si,             \* index of the style the outer loop is at
    tags,           \* <<tag_open, tag_close>> of that style
    todo,           \* spans of that style the inner loop has yet to visit
    markdown        \* the returned string

ocr_vars == <<opc, content, styles, chars, si, tags, todo, markdown>>

vars == <<pc, req, i, name, parts, resps, results, marks, all_fb, class_avg,
          class_feedback, atts, response, calls, acs_configured, ocr_failed,
          email_err, nInWindow, ocr_vars>>

NoRequest ==
    [ms |-> Absent, files |-> <<>>, level |-> "", subject |-> "",
     exam_board |-> "", opts |-> {}, feedback_detail |-> "overall",
     mp |-> FALSE]
NoResponse == [status |-> 0, body |-> "", cookie |-> FALSE]

Init ==
    /\ pc = "idle"
    /\ req = NoRequest
    /\ i = 1
    /\ name = ""
    /\ parts = Parts(TRUE, <<>>)
    /\ resps = <<>>
    /\ results = <<>> /\ marks = <<>> /\ all_fb = <<>>
    /\ class_avg = 0
    /\ class_feedback = PlainText
    /\ atts = <<>>
    /\ response = NoResponse
    /\ calls = {}
    /\ acs_configured \in BOOLEAN
    /\ ocr_failed = 0
    /\ email_err = FALSE
    /\ nInWindow = 0
    /\ opc = "idle"
    /\ content = <<>> /\ styles = <<>> /\ chars = <<>>
    /\ si = 1 /\ tags = <<"", "">> /\ todo = <<>> /\ markdown = <<>>

\* A response: status, what the body is, and whether it sets a quota cookie
\* (upload_file never does).
Response(st, b) == [status |-> st, body |-> b, cookie |-> FALSE]

\* handle_exception: any exception leaving the route becomes a 500 whose
\* body is the traceback
Raise(where) ==
    /\ response' = Response(500, where)
    /\ pc' = "done"

\* lines 204-230: why the request is rejected, "" when it is not
Validate(r) ==
    IF r.ms = Absent \/ r.files = <<>> THEN "missing_files"
    ELSE IF r.level \notin allowed_levels THEN "invalid_level"
    ELSE IF r.subject \notin allowed_subjects THEN "invalid_subject"
    ELSE IF r.exam_board \notin allowed_boards THEN "invalid_exam_board"
    ELSE ""

\* POST /upload arrives: lines 201-230
Submit(r) ==
    /\ pc \in {"idle", "done"}
    /\ nInWindow < MaxSubmissions
    /\ nInWindow' = nInWindow + 1
    /\ req' = r
    /\ i' = 1 /\ name' = "" /\ parts' = Parts(TRUE, <<>>) /\ resps' = <<>>
    /\ results' = <<>> /\ marks' = <<>> /\ all_fb' = <<>>
    /\ class_avg' = 0 /\ class_feedback' = PlainText /\ atts' = <<>>
    /\ calls' = {} /\ ocr_failed' = 0 /\ email_err' = FALSE
    /\ IF Validate(r) # ""
       THEN /\ response' = Response(400, Validate(r))
            /\ pc' = "done"
       ELSE /\ response' = NoResponse
            /\ pc' = "ocr_ms"
    /\ UNCHANGED <<acs_configured, ocr_vars>>

\* lines 233-237: save the mark scheme and OCR it
OcrMarkScheme ==
    /\ pc = "ocr_ms"
    /\ IF secure_filename(req.ms) = ""
       THEN Raise("tb_ms_save") /\ UNCHANGED calls
       ELSE /\ calls' = calls \cup {"ocr"}
            /\ \E ok \in BOOLEAN :
                 IF ok THEN pc' = "ocr_mp" /\ UNCHANGED response
                 ELSE Raise("tb_ms_ocr")
    /\ UNCHANGED <<req, i, name, parts, resps, results, marks, all_fb,
                   class_avg, class_feedback, atts, acs_configured, ocr_failed,
                   email_err, nInWindow, ocr_vars>>

\* lines 242-249: the optional marking-points file
OcrMarkingPoints ==
    /\ pc = "ocr_mp"
    /\ IF req.mp
       THEN /\ calls' = calls \cup {"ocr"}
            /\ \E ok \in BOOLEAN :
                 IF ok THEN pc' = "ocr_student" /\ UNCHANGED response
                 ELSE Raise("tb_mp_ocr")
       ELSE pc' = "ocr_student" /\ UNCHANGED <<response, calls>>
    /\ UNCHANGED <<req, i, name, parts, resps, results, marks, all_fb,
                   class_avg, class_feedback, atts, acs_configured, ocr_failed,
                   email_err, nInWindow, ocr_vars>>

\* lines 255-259: save student file i and OCR it
OcrStudent ==
    /\ pc = "ocr_student"
    /\ name' = secure_filename(req.files[i])
    /\ IF name' = ""
       THEN Raise("tb_student_save") /\ UNCHANGED <<calls, ocr_failed>>
       ELSE /\ calls' = calls \cup {"ocr"}
            /\ \E ok \in BOOLEAN :
                 IF ok THEN pc' = "score" /\ UNCHANGED <<response, ocr_failed>>
                 ELSE Raise("tb_student_ocr") /\ ocr_failed' = i
    /\ UNCHANGED <<req, i, parts, resps, results, marks, all_fb,
                   class_avg, class_feedback, atts, acs_configured,
                   email_err, nInWindow, ocr_vars>>

\* lines 262-323: the scoring call and the parse of its answer
Score ==
    /\ pc = "score"
    /\ calls' = calls \cup {"score"}
    /\ IF req.feedback_detail = "parts"
       THEN \E r \in PartsResponses :
              /\ parts' = ParseParts(r)
              /\ resps' = Append(resps, [kind |-> r.kind, items |-> r.items,
                                         text |-> PlainText])
       ELSE \E r \in OverallResponses :
              /\ parts' = OverallParts(r)
              /\ resps' = Append(resps, [kind |-> r.kind, items |-> <<>>,
                                         text |-> r.text])
    /\ pc' = "collect"
    /\ UNCHANGED <<req, i, name, results, marks, all_fb, class_avg,
                   class_feedback, atts, response, acs_configured, ocr_failed,
                   email_err, nInWindow, ocr_vars>>

\* lines 325-341: report, marks and result of student file i
Collect ==
    /\ pc = "collect"
    /\ all_fb' = Append(all_fb, parts)
    /\ calls' = calls \cup {"render"}
    /\ IF PdfRaises(parts)
       THEN Raise("tb_pdf") /\ UNCHANGED <<marks, results, i>>
       ELSE /\ marks' = marks \o MarksOf(parts.items)
            /\ IF DividesByZero(parts.items)
               THEN Raise("tb_marks") /\ UNCHANGED <<results, i>>
               ELSE /\ results' = AppendResult(results,
                                     [filename |-> name, parts |-> parts])
                    /\ i' = i + 1
                    /\ pc' = IF i < Len(req.files) THEN "ocr_student"
                             ELSE "summary"
                    /\ UNCHANGED response
    /\ UNCHANGED <<req, name, parts, resps, class_avg, class_feedback, atts,
                   acs_configured, ocr_failed, email_err, nInWindow, ocr_vars>>

\* lines 343-364: class average, class summary and its PDF
Summarise ==
    /\ pc = "summary"
    /\ class_avg' = ClassAvg(marks)
    /\ calls' = calls \cup {"score", "render"}
    /\ \E ok \in BOOLEAN : class_feedback' = Text(~ok, <<>>)
    /\ pc' = IF "email" \in req.opts THEN "email" ELSE "respond"
    /\ UNCHANGED <<req, i, name, parts, resps, results, marks, all_fb, atts,
                   response, acs_configured, ocr_failed, email_err,
                   nInWindow, ocr_vars>>

\* lines 367-378 and send_email_with_attachments_acs
Email ==
    /\ pc = "email"
    /\ atts' = Attachments(results)
    /\ IF ~acs_configured
       THEN pc' = "respond" /\ UNCHANGED <<response, calls, email_err>>
       ELSE \E out \in {"sent", "attach_error", "send_error"} :
              /\ calls' = IF out = "attach_error" THEN calls
                          ELSE calls \cup {"send"}
              /\ email_err' = (out # "sent")
              /\ IF out = "sent" THEN pc' = "respond" /\ UNCHANGED response
                 ELSE Raise("tb_email")
    /\ UNCHANGED <<req, i, name, parts, resps, results, marks, all_fb,
                   class_avg, class_feedback, acs_configured, ocr_failed,
                   nInWindow, ocr_vars>>

\* lines 381-397
Respond ==
    /\ pc = "respond"
    /\ response' = IF "website" \in req.opts THEN Response(200, "results_page")
                   ELSE Response(200, "ack")
    /\ pc' = "done"
    /\ UNCHANGED <<req, i, name, parts, resps, results, marks, all_fb,
                   class_avg, class_feedback, atts, calls, acs_configured,
                   ocr_failed, email_err, nInWindow, ocr_vars>>

\* one submission of any kind
SubmitAny == pc = "idle" /\ \E r \in Requests : Submit(r)

\* one more submission by the same client
SubmitQuota == \E r \in QuotaRequests : Submit(r)

\* more than the window length passes since the window's first submission
WindowElapses ==
    /\ pc = "done"
    /\ nInWindow > 0
    /\ nInWindow' = 0
    /\ UNCHANGED <<pc, req, i, name, parts, resps, results, marks, all_fb,
                   class_avg, class_feedback, atts, response, calls,
                   acs_configured, ocr_failed, email_err, ocr_vars>>

Next ==
    \/ SubmitAny
    \/ OcrMarkScheme
    \/ OcrMarkingPoints
    \/ OcrStudent
    \/ Score
    \/ Collect
    \/ Summarise
    \/ Email
    \/ Respond

Spec == Init /\ [][Next]_vars

NextQuota ==
    \/ SubmitQuota
    \/ WindowElapses
    \/ OcrMarkScheme
    \/ OcrMarkingPoints
    \/ OcrStudent
    \/ Score
    \/ Collect
    \/ Summarise
    \/ Email
    \/ Respond

SpecQuota == Init /\ [][NextQuota]_vars


\* ----------------------------------------------------------- extract_text
\* The OCR contents: extract_text never looks at the value of a character,
\* so one text of letters and marker characters per length and first
\* character is enough: "a*ba*b.." and "*ba*ba..".
Glyph(k) ==
    CASE k % 3 = 1 -> "a"
      [] k % 3 = 2 -> "*"
      [] OTHER -> "b"

Contents ==
    {[k \in 1..n |-> Glyph(k + d)] : n \in 0..MaxLen, d \in {0, 1}}
FontWeights == {"bold", "normal"}

\* DocumentSpan values inside a content of n characters
SpansOf(n) ==
    {sp \in [offset : 0..(n - 1), length : 1..n] : sp.offset + sp.length <= n}

Overlap(a, b) ==
    a.offset < b.offset + b.length /\ b.offset < a.offset + a.length

\* the spans of the bold styles, as <<style index, span index>> positions
BoldPositions(st) ==
    {q \in (1..Len(st)) \X (1..MaxSpans + 1) :
        /\ st[q[1]].font_weight = "bold"
        /\ q[2] <= Len(st[q[1]].spans)}

BoldSpans(st) == {st[q[1]].spans[q[2]] : q \in BoldPositions(st)}

\* no two spans of bold styles share a character
BoldDisjoint(st) ==
    \A q1, q2 \in BoldPositions(st) :
        q1 # q2 => ~Overlap(st[q1[1]].spans[q1[2]], st[q2[1]].spans[q2[2]])

\* the styles made of the spans sq, span k going to style cut[k]
StylesFrom(sq, w, cut) ==
    [j \in 1..Len(w) |->
        [font_weight |-> w[j],
         spans |-> LET idx == SelectSeq([k \in 1..Len(sq) |-> k],
                                       LAMBDA k : cut[k] = j)
                   IN  [k \in 1..Len(idx) |-> sq[idx[k]]]]]

\* sorted(style.spans, key=lambda s: s.offset, reverse=True): stable, spans
\* of equal offset keep their order
RECURSIVE InsertDesc(_, _)
InsertDesc(x, sq) ==
    IF sq = <<>> THEN <<x>>
    ELSE IF Head(sq).offset >= x.offset
         THEN <<Head(sq)>> \o InsertDesc(x, Tail(sq))
         ELSE <<x>> \o sq

RECURSIVE SortedDesc(_)
SortedDesc(sq) ==
    IF sq = <<>> THEN <<>>
    ELSE InsertDesc(sq[Len(sq)], SortedDesc(SubSeq(sq, 1, Len(sq) - 1)))

\* "".join(chars)
RECURSIVE Join(_)
Join(cs) == IF cs = <<>> THEN <<>> ELSE Head(cs) \o Join(Tail(cs))

\* lines 87-89
TagsOf(style) ==
    IF style.font_weight = "bold" THEN <<(<<"*", "*">>), (<<"*", "*">>)>>
    ELSE <<(<<>>), (<<>>)>>

\* line 96
OpenCell(cell, tag_open) == tag_open \o cell

\* f"{tag_close}{chars[end - 1]}" in place of line 97
CloseCellBefore(cell, tag_close) == tag_close \o cell

\* line 97
CloseCell(cell, tag_close) == cell \o tag_close

\* lines 75-83: the OCR service answers with a content and a list of styles
\* whose bold spans do not overlap (span k of sq goes to style cut[k]);
\* chars = list(result.content)
Analyze ==
    /\ opc = "idle"
    /\ \E c \in Contents :
       \E sq \in SeqsUpTo(SpansOf(Len(c)), MaxSpans) :
       \E w \in SeqsUpTo(FontWeights, MaxStyles) :
       \E cut \in [1..Len(sq) -> 1..Len(w)] :
          /\ BoldDisjoint(StylesFrom(sq, w, cut))
          /\ content' = c
          /\ styles' = StylesFrom(sq, w, cut)
          /\ chars' = [k \in 1..Len(c) |-> <<c[k]>>]
    /\ si' = 1
    /\ opc' = "style"
    /\ UNCHANGED <<tags, todo, markdown>>
    /\ UNCHANGED <<pc, req, i, name, parts, resps, results, marks, all_fb,
                   class_avg, class_feedback, atts, response, calls,
                   acs_configured, ocr_failed, email_err, nInWindow>>

\* lines 86-94: the outer loop takes style si
EnterStyle ==
    /\ opc = "style"
    /\ si <= Len(styles)
    /\ tags' = TagsOf(styles[si])
    /\ todo' = SortedDesc(styles[si].spans)
    /\ opc' = "span"
    /\ UNCHANGED <<content, styles, chars, si, markdown>>
    /\ UNCHANGED <<pc, req, i, name, parts, resps, results, marks, all_fb,
                   class_avg, class_feedback, atts, response, calls,
                   acs_configured, ocr_failed, email_err, nInWindow>>

\* lines 95-97: the inner loop takes the next span
ApplySpan ==
    /\ opc = "span"
    /\ todo # <<>>
    /\ LET span == Head(todo)
           start == span.offset
           end == span.offset + span.length
           opened == [chars EXCEPT ![start + 1] = OpenCell(@, tags[1])]
       IN  chars' = [opened EXCEPT ![end] = CloseCell(@, tags[2])]
    /\ todo' = Tail(todo)
    /\ UNCHANGED <<opc, content, styles, si, tags, markdown>>
    /\ UNCHANGED <<pc, req, i, name, parts, resps, results, marks, all_fb,
                   class_avg, class_feedback, atts, response, calls,
                   acs_configured, ocr_failed, email_err, nInWindow>>

\* line 94: the inner loop is over
LeaveStyle ==
    /\ opc = "span"
    /\ todo = <<>>
    /\ si' = si + 1
    /\ opc' = "style"
    /\ UNCHANGED <<content, styles, chars, tags, todo, markdown>>
    /\ UNCHANGED <<pc, req, i, name, parts, resps, results, marks, all_fb,
                   class_avg, class_feedback, atts, response, calls,
                   acs_configured, ocr_failed, email_err, nInWindow>>

\* line 99
Return ==
    /\ opc = "style"
    /\ si > Len(styles)
    /\ markdown' = Join(chars)
    /\ opc' = "done"
    /\ UNCHANGED <<content, styles, chars, si, tags, todo>>
    /\ UNCHANGED <<pc, req, i, name, parts, resps, results, marks, all_fb,
                   class_avg, class_feedback, atts, response, calls,
                   acs_configured, ocr_failed, email_err, nInWindow>>

NextOcr ==
    \/ Analyze
    \/ EnterStyle
    \/ ApplySpan
    \/ LeaveStyle
    \/ Return

InitOcr == Init /\ acs_configured

SpecOcr == InitOcr /\ [][NextOcr]_vars

\* ------------------------------------------------------------ properties
Last(sq) == sq[Len(sq)]

\* the scoring answer for a student file counts as a failure: the call
\* raised, or (parts) the content is not a sequence of item records
Failing(r) ==
    \/ r.kind \in {"raise", "badjson", "scalar"}
    \/ \E k \in 1..Len(r.items) : ~r.items[k].rec

\* a single placeholder item carrying a failure description
IsSynthetic(p) ==
    /\ p.iter
    /\ Len(p.items) = 1
    /\ p.items[1].rec
    /\ ~Scored(p.items[1])
    /\ p.items[1].feedback.err

\* the items a well-formed answer stands for
ExpectedItems(r) ==
    IF req.feedback_detail = "parts" THEN r.items
    ELSE <<Part("Overall", None, None, r.text)>>

\* the handler is past the batch loop, or left it because of `parts`
LoopOutcome ==
    \/ pc \in {"summary", "email", "respond"}
    \/ pc = "done" /\ response.body \in {"tb_pdf", "results_page", "ack",
                                         "tb_email"}

\* the class average has been computed
Aggregated ==
    \/ pc \in {"email", "respond"}
    \/ pc = "done" /\ response.body \in {"results_page", "ack", "tb_email"}

\* C1: scoring failures of any subset of the student files leave the batch
\* loop with one result per file, a single synthetic item for each failing
\* file and the unchanged items for every other file.
ScoringFaultIsolation ==
    LoopOutcome =>
        /\ Len(results) = Len(req.files)
        /\ \A j \in 1..Len(results) :
             IF Failing(resps[j]) THEN IsSynthetic(results[j].parts)
             ELSE results[j].parts = Parts(TRUE, ExpectedItems(resps[j]))

\* C2: in parts mode a failed call or an answer that is not a sequence of
\* item records gives exactly one item named "Error" with no awarded, no
\* total and the failure description as commentary.
PerItemErrorItem ==
    (pc = "collect" /\ req.feedback_detail = "parts" /\ Failing(Last(resps)))
        => parts = Parts(TRUE, <<Part("Error", None, None, Text(TRUE, <<>>))>>)

\* C3: in overall mode every file gives exactly one item "Overall", with
\* awarded and total taken from the "Mark: a/b" marker of the answer when it
\* has one and absent otherwise; one file answered "Mark: 8/10" gives a class
\* average of 80.0.
OverallMarkExtracted ==
    /\ (pc = "collect" /\ req.feedback_detail = "overall") =>
          /\ parts.iter /\ Len(parts.items) = 1
          /\ parts.items[1].question = "Overall"
          /\ LET m == parts.items[1].feedback.mark IN
               IF m = <<>>
               THEN parts.items[1].awarded = None /\ parts.items[1].total = None
               ELSE parts.items[1].awarded = m[1] /\ parts.items[1].total = m[2]
    /\ (Aggregated /\ req.feedback_detail = "overall" /\ Len(resps) = 1
          /\ resps[1].kind = "text" /\ resps[1].text.mark = <<8, 10>>)
          => class_avg = 800

\* C4: when no item of the batch has both awarded and total, the class
\* average is the no-data sentinel and not a number.
NoScoredItem ==
    \A j \in 1..Len(results) : \A k \in 1..Len(results[j].parts.items) :
        ~Scored(results[j].parts.items[k])

EmptyAggregateIsNoData ==
    (Aggregated /\ NoScoredItem) => class_avg = NoData

\* C5: an item with awarded and total present and total = 0 is skipped by
\* mark collection; its file still gets its result and the marks are the
\* percentages of the items with a positive total.
HasZeroTotal(r) == r.kind = "array" /\ ~Failing(r) /\ DividesByZero(r.items)

RECURSIVE PositiveMarks(_)
PositiveMarks(items) ==
    IF items = <<>> THEN <<>>
    ELSE LET p == Head(items) IN
         IF Scored(p) /\ p.total > 0
         THEN <<Percent(p.awarded, p.total)>> \o PositiveMarks(Tail(items))
         ELSE PositiveMarks(Tail(items))

RECURSIVE AllPositiveMarks(_)
AllPositiveMarks(rs) ==
    IF rs = <<>> THEN <<>>
    ELSE PositiveMarks(Head(rs).parts.items) \o AllPositiveMarks(Tail(rs))

ZeroTotalExcluded ==
    \A j \in 1..Len(resps) :
        (HasZeroTotal(resps[j]) /\ pc \notin {"score", "collect"}) =>
            /\ j <= Len(results)
            /\ response.body # "tb_marks"
            /\ marks = AllPositiveMarks(results)

\* C6: a submission beyond the first maxRequests of one window is rejected
\* with status 429 before any processing (stated for the submissions that
\* do not end in an internal error).
QuotaRejectsOverLimit ==
    (pc = "done" /\ nInWindow > maxRequests /\ response.status # 500) =>
        response.status = 429 /\ calls = {}

\* C7: a submission with an unsupported level, subject or exam board, a
\* missing mark scheme or no student file, or no delivery option is rejected
\* with a reason, and no collaborator has been called for it (stated for
\* the submissions that do not end in an internal error).
Rejectable(r) == Validate(r) # "" \/ r.opts = {}

ValidationPrecedesCalls ==
    (pc = "done" /\ Rejectable(req) /\ response.status # 500) =>
        /\ response.status = 400
        /\ calls = {}

\* C8: when the e-mail sender raises, the request still ends in the success
\* response: the results page if display was requested, else the
\* acknowledgement.
DeliveryFailureNonFatal ==
    (pc = "done" /\ email_err) =>
        response = Response(200, IF "website" \in req.opts
                                 THEN "results_page" ELSE "ack")

\* C9: an OCR error on a student file leaves the request successful, with a
\* result for every file and a synthetic item for the file that failed.
CandidateOcrIsolated ==
    (pc = "done" /\ ocr_failed # 0) =>
        /\ response.status = 200
        /\ Len(results) = Len(req.files)
        /\ IsSynthetic(results[ocr_failed].parts)

\* C10: the results are, in order, those of the submitted student files:
\* result j carries the name and the scoring answer of file j, all files
\* have a result once the loop is over, and the attachments are the reports
\* of the files in the same order, followed by the class summary.
PartsFor(r) ==
    IF req.feedback_detail = "parts" THEN ParseParts(r)
    ELSE OverallParts([kind |-> r.kind, text |-> r.text])

Bold == BoldSpans(styles)

\* where character k of the content (counted from 1) has to be in the
\* output: after the opening markers of the spans that start at or before it
\* and the closing markers of the spans that end before it
Pos(k) ==
    k + 2 * Cardinality({sp \in Bold : sp.offset + 1 <= k})
      + 2 * Cardinality({sp \in Bold : sp.offset + sp.length < k})

StyleRoundTrip ==
    opc = "done" =>
        /\ Len(markdown) = Len(content) + 4 * Cardinality(Bold)
        /\ [k \in 1..Len(content) |-> markdown[Pos(k)]] = content
        /\ \A sp \in Bold :
             LET first == Pos(sp.offset + 1)
                 last == Pos(sp.offset + sp.length)
             IN  /\ markdown[first - 2] = "*" /\ markdown[first - 1] = "*"
                 /\ markdown[last + 1] = "*" /\ markdown[last + 2] = "*"

\* one bold style whose two adjacent spans are listed left to right, in a
\* text that ends after them
StyleRoundTripWitness ==
    /\ opc = "done"
    /\ Len(content) = 3
    /\ Len(styles) = 1
    /\ styles[1].font_weight = "bold"
    /\ styles[1].spans = <<[offset |-> 0, length |-> 1],
                           [offset |-> 1, length |-> 1]>>
    /\ Len(markdown) = 11

====
